---- MODULE Spec2Model ----
(***************************************************************************)
(* Model of the MAX7219 32x8 dot-matrix driver (src/light.h) and of its    *)
(* animation program (src/light.c).                                        *)
(*                                                                         *)
(* Three specifications share the same state:                              *)
(*   Spec       the program main(): init_lights, the next_light loop and   *)
(*              finish_lights, every open/ioctl/write/close being one step *)
(*              whose outcome the operating system chooses;                *)
(*   SpecFb     fb_clear, fb_set_pixel and fb_flush called one after       *)
(*              another with arguments drawn from small sets, against a    *)
(*              bus that records every write and chooses how many bytes it *)
(*              transfers;                                                 *)
(*   SpecProto  max7219_send_row, max7219_broadcast and max7219_init       *)
(*              called the same way.                                       *)
(***************************************************************************)
EXTENDS Integers, Sequences, FiniteSets, TLC

VARIABLES
    pc,            \* control position: see the actions
    caller,        \* who called the running max7219_init / fb_flush
    spi_fd,        \* static int spi_fd
    closes,        \* number of close(spi_fd) calls made so far
    fb,            \* static uint32_t fb[HEIGHT]
    cur_light_x,   \* static int cur_light_x
    cur_light_y,   \* static int cur_light_y
    intensity,     \* max7219_init's parameter intensity_0to15 (after the clamp)
    step,          \* max7219_init's position: 0..4 the broadcasts, 5..12 the rows
    fy,            \* fb_flush's loop variable y
    wire,          \* the bus: every write() issued, in order, with its result
    ret,           \* return value of the last finished call (exit code in Spec)
    last,          \* direct calls: the driver call made last
    prev,          \* direct calls: the driver call made before it
    fb1,           \* direct calls: fb when the last call started
    fb2            \* direct calls: fb when the call before it started

vars == <<pc, caller, spi_fd, closes, fb, cur_light_x, cur_light_y, intensity,
          step, fy, wire, ret, last, prev, fb1, fb2>>

-----------------------------------------------------------------------------
(* Program constants (src/light.h)                                         *)

NUM_DEVICES == 4
WIDTH == 32
HEIGHT == 8
REG_DECODE == 9
REG_INTENSITY == 10
REG_SCANLIMIT == 11
REG_SHUTDOWN == 12
REG_DISPLAYTEST == 15

\* sizeof(tx) for uint8_t tx[NUM_DEVICES * 2]
TxSize == NUM_DEVICES * 2

\* The descriptor a successful open() returns.
OpenedFd == 3

-----------------------------------------------------------------------------
(* Inputs                                                                  *)

\* What write() may return for a TxSize-byte request: an error, a partial
\* transfer, or the whole buffer.
WriteResults == {-1, TxSize - 1, TxSize}

\* Pixel coordinates fb_set_pixel is called with in SpecFb: both edges of the
\* valid range and the first value outside it on either side.
XS == {-1, 0, WIDTH - 1, WIDTH}
YS == {-1, 0, HEIGHT - 1, HEIGHT}

\* Intensity arguments of max7219_init in SpecProto (a uint8_t).
Intensities == {0, 4, 15, 16, 20, 255}

\* Row indices and per-device bytes max7219_send_row is called with in SpecProto.
RowArgs == {0, 1, 8, 9}
ByteArgs == { [d \in 0..(NUM_DEVICES - 1) |-> 17 * (d + 1)],
              [d \in 0..(NUM_DEVICES - 1) |-> IF d = 0 THEN 128 ELSE 255 - d] }

\* Register/data pairs max7219_broadcast is called with in SpecProto.
BroadcastArgs == { <<REG_SHUTDOWN, 0>>, <<REG_SHUTDOWN, 1>>, <<REG_INTENSITY, 9>> }

-----------------------------------------------------------------------------
(* Pure parts of the driver                                                *)

\* uint8_t tx[NUM_DEVICES * 2] before the filling loop; every element is
\* overwritten by the loop, so its initial content is never transmitted.
EmptyTx == [j \in 0..(TxSize - 1) |-> 0]

\* Faulty variant of BroadcastFill: the loop stops one device early
\* (i < NUM_DEVICES - 1), leaving the last pair unset.
RECURSIVE BroadcastFillBad(_, _, _, _)
BroadcastFillBad(tx, i, reg, data) ==
    IF i >= NUM_DEVICES - 1 THEN tx
    ELSE BroadcastFillBad([tx EXCEPT ![i * 2 + 0] = reg, ![i * 2 + 1] = data],
                          i + 1, reg, data)

\* max7219_broadcast's loop: for (i = 0; i < NUM_DEVICES; i++)
RECURSIVE BroadcastFill(_, _, _, _)
BroadcastFill(tx, i, reg, data) ==
    IF i >= NUM_DEVICES THEN tx
    ELSE BroadcastFill([tx EXCEPT ![i * 2 + 0] = reg, ![i * 2 + 1] = data],
                       i + 1, reg, data)

\* Faulty variant of ChainIndex: nearest device first (chain_index = d).
ChainIndexBad(d) == d

\* max7219_send_row's chain_index = (NUM_DEVICES - 1) - d
ChainIndex(d) == (NUM_DEVICES - 1) - d

\* max7219_send_row's loop: for (d = 0; d < NUM_DEVICES; d++)
RECURSIVE SendRowFill(_, _, _, _)
SendRowFill(tx, d, digit, dev_data) ==
    IF d >= NUM_DEVICES THEN tx
    ELSE SendRowFill([tx EXCEPT ![ChainIndex(d) * 2 + 0] = digit % 256,
                                ![ChainIndex(d) * 2 + 1] = dev_data[d]],
                     d + 1, digit, dev_data)

\* One write(spi_fd, tx, sizeof(tx)) as the bus records it; n is what it returns.
BusEntry(op, tx, n) == [op |-> op, buf |-> tx, len |-> TxSize, n |-> n]

\* Faulty variant of WriteRet: only a negative result is an error (n < 0), so
\* a partial transfer passes for a complete one.
WriteRetBad(n) == IF n < 0 THEN -1 ELSE 0

\* The result of a write: n != sizeof(tx) is an error.
WriteRet(n) == IF n # TxSize THEN -1 ELSE 0

\* max7219_broadcast(reg, data) when write() returns n: its return value and
\* the writes it issued.
Broadcast(reg, data, n) ==
    [ret |-> WriteRet(n),
     out |-> << BusEntry("broadcast", BroadcastFill(EmptyTx, 0, reg, data), n) >>]

\* Faulty variant of SendRow: the lower bound of the range check is off by
\* one (digit_1to8 < 0), so row index 0 is transmitted.
SendRowBad(digit, dev_data, n) ==
    IF digit < 0 \/ digit > 8
    THEN [ret |-> -1, out |-> << >>]
    ELSE [ret |-> WriteRet(n),
          out |-> << BusEntry("send_row", SendRowFill(EmptyTx, 0, digit, dev_data), n) >>]

\* max7219_send_row(digit_1to8, dev_data) when write() returns n.
SendRow(digit, dev_data, n) ==
    IF digit < 1 \/ digit > 8
    THEN [ret |-> -1, out |-> << >>]
    ELSE [ret |-> WriteRet(n),
          out |-> << BusEntry("send_row", SendRowFill(EmptyTx, 0, digit, dev_data), n) >>]

\* Faulty variant of Clamp: the value is masked to 4 bits instead of clamped.
ClampBad(v) == v % 16

\* max7219_init: if (intensity_0to15 > 15) intensity_0to15 = 15;
Clamp(v) == IF v > 15 THEN 15 ELSE v

\* Faulty variant of InitBroadcast: SHUTDOWN=1 is sent before INTENSITY.
InitBroadcastBad(s, inten) ==
    CASE s = 0 -> <<REG_DISPLAYTEST, 0>>
      [] s = 1 -> <<REG_DECODE, 0>>
      [] s = 2 -> <<REG_SCANLIMIT, 7>>
      [] s = 3 -> <<REG_SHUTDOWN, 1>>
      [] s = 4 -> <<REG_INTENSITY, inten>>

\* max7219_init's five broadcasts, in program order: step -> <<reg, data>>.
InitBroadcast(s, inten) ==
    CASE s = 0 -> <<REG_DISPLAYTEST, 0>>
      [] s = 1 -> <<REG_DECODE, 0>>
      [] s = 2 -> <<REG_SCANLIMIT, 7>>
      [] s = 3 -> <<REG_INTENSITY, inten>>
      [] s = 4 -> <<REG_SHUTDOWN, 1>>

\* Number of broadcasts, and of all transactions, of max7219_init.
InitBroadcasts == 5
InitSteps == InitBroadcasts + 8

\* uint8_t zeros[NUM_DEVICES] = {0,0,0,0};
Zeros == [d \in 0..(NUM_DEVICES - 1) |-> 0]

\* The transaction max7219_init issues at position s when write() returns n.
InitCall(s, inten, n) ==
    IF s < InitBroadcasts
    THEN Broadcast(InitBroadcast(s, inten)[1], InitBroadcast(s, inten)[2], n)
    ELSE SendRow(s - InitBroadcasts + 1, Zeros, n)

\* A uint32_t framebuffer row is modelled as the set of its 1 bits, a subset
\* of 0..31 (bit i is column i): the value is the sum of 2^i over the set.

\* static uint32_t fb[HEIGHT]: zero-initialised
FbZero == [y \in 0..(HEIGHT - 1) |-> {}]

\* Faulty variant of FbClear: the loop stops one row early (y < HEIGHT - 1).
FbClearBad(f) == [y \in DOMAIN f |-> IF y >= 0 /\ y < HEIGHT - 1 THEN {} ELSE f[y]]

\* fb_clear applied to framebuffer f: for (y = 0; y < HEIGHT; y++) fb[y] = 0
FbClear(f) == [y \in DOMAIN f |-> IF y >= 0 /\ y < HEIGHT THEN {} ELSE f[y]]

\* Bit x of a row: (row >> x) & 1u
Bit(row, x) == IF x \in row THEN 1 ELSE 0

\* Faulty variant of InRange: the upper bound of x is off by one (x > WIDTH).
InRangeBad(x, y) == ~(x < 0 \/ x > WIDTH \/ y < 0 \/ y >= HEIGHT)

\* fb_set_pixel's range check: the negation of
\* x < 0 || x >= WIDTH || y < 0 || y >= HEIGHT
InRange(x, y) == ~(x < 0 \/ x >= WIDTH \/ y < 0 \/ y >= HEIGHT)

\* uint32_t mask = 1u << x
Mask(x) == {x}

\* fb[y] |= mask
RowSet(row, mask) == row \cup mask

\* Faulty variant of RowClear: the mask is not complemented (fb[y] &= mask).
RowClearBad(row, mask) == row \cap mask

\* fb[y] &= ~mask
RowClear(row, mask) == row \ mask

\* fb_set_pixel(x, y, on) applied to framebuffer f
SetPixel(f, x, y, on) ==
    IF ~InRange(x, y) THEN f
    ELSE IF on # 0 THEN [f EXCEPT ![y] = RowSet(f[y], Mask(x))]
         ELSE [f EXCEPT ![y] = RowClear(f[y], Mask(x))]

\* b | m truncated to uint8_t, for a byte b and m either 0 or a power of two.
ByteOr(b, m) ==
    IF m = 0 \/ (b \div m) % 2 = 1 THEN b ELSE (b + m) % 256

\* fb_flush's position of column d*8+bit inside device d's byte: the code
\* ORs in 1u << bit.
BitWeight(bit) == 2 ^ bit

\* fb_flush's inner loop: for (bit = 0; bit < 8; bit++) b |= on ? 1u << bit : 0
RECURSIVE DevByteLoop(_, _, _, _)
DevByteLoop(row, d, bit, b) ==
    IF bit >= 8 THEN b
    ELSE LET x == d * 8 + bit
             on == Bit(row, x)
             m == IF on # 0 THEN BitWeight(bit) ELSE 0
             nb == ByteOr(b, m)
         IN DevByteLoop(row, d, bit + 1, nb)

\* Faulty variant of DevBytes: device d is given the columns of device
\* NUM_DEVICES - 1 - d (the segments are mirrored).
DevBytesBad(row) ==
    [d \in 0..(NUM_DEVICES - 1) |-> DevByteLoop(row, (NUM_DEVICES - 1) - d, 0, 0)]

\* fb_flush's dev_bytes[NUM_DEVICES] for one framebuffer row.
DevBytes(row) == [d \in 0..(NUM_DEVICES - 1) |-> DevByteLoop(row, d, 0, 0)]

-----------------------------------------------------------------------------
(* Initial states                                                          *)

NoCall == [op |-> "none"]

\* The program at the start of main(): the statics as C initialises them.
Init ==
    /\ pc = "main"
    /\ caller = "main"
    /\ spi_fd = -1
    /\ closes = 0
    /\ fb = FbZero
    /\ cur_light_x = 0
    /\ cur_light_y = 0
    /\ intensity = 0
    /\ step = 0
    /\ fy = 0
    /\ wire = << >>
    /\ ret = 0
    /\ last = NoCall
    /\ prev = NoCall
    /\ fb1 = FbZero
    /\ fb2 = FbZero

\* The driver with an open bus, ready to be called.
InitApi ==
    /\ pc = "idle"
    /\ caller = "api"
    /\ spi_fd = OpenedFd
    /\ closes = 0
    /\ fb = FbZero
    /\ cur_light_x = 0
    /\ cur_light_y = 0
    /\ intensity = 0
    /\ step = 0
    /\ fy = 0
    /\ wire = << >>
    /\ ret = 0
    /\ last = NoCall
    /\ prev = NoCall
    /\ fb1 = FbZero
    /\ fb2 = FbZero

-----------------------------------------------------------------------------
(* Returns of the two multi-step functions to whoever called them          *)

hist == <<last, prev, fb1, fb2>>
cursor == <<cur_light_x, cur_light_y>>

\* Faulty variant of InitReturn: init_lights ignores max7219_init's result
\* and always goes on to fb_clear() and the animation loop.
InitReturnBad(r) ==
    IF caller = "api"
    THEN /\ pc' = "idle"
         /\ ret' = r
         /\ fb' = fb
    ELSE /\ pc' = "loop"
         /\ ret' = ret
         /\ fb' = FbClear(fb)

\* max7219_init returns r.  Called directly the call is over; called from
\* init_lights, r < 0 makes init_lights return 1 and main return 1 (light.c:4),
\* otherwise init_lights runs fb_clear() and main enters its loop.
InitReturn(r) ==
    IF caller = "api"
    THEN /\ pc' = "idle"
         /\ ret' = r
         /\ fb' = fb
    ELSE IF r < 0
         THEN /\ pc' = "exit"
              /\ ret' = 1
              /\ fb' = fb
         ELSE /\ pc' = "loop"
              /\ ret' = ret
              /\ fb' = FbClear(fb)

\* Faulty variant of FlushReturn: finish_lights gives up on a failed flush
\* (if (fb_flush() < 0) return;) and never reaches close().
FlushReturnBad(r) ==
    IF caller = "api"
    THEN pc' = "idle" /\ ret' = r
    ELSE IF caller = "next_light"
         THEN pc' = (IF r < 0 THEN "finish" ELSE "loop") /\ ret' = ret
         ELSE pc' = (IF r < 0 THEN "exit" ELSE "close") /\ ret' = ret

\* fb_flush returns r.  next_light returns 1 when r < 0, which ends main's
\* loop, and 0 otherwise; finish_lights ignores r and goes on to close().
FlushReturn(r) ==
    IF caller = "api"
    THEN pc' = "idle" /\ ret' = r
    ELSE IF caller = "next_light"
         THEN pc' = (IF r < 0 THEN "finish" ELSE "loop") /\ ret' = ret
         ELSE pc' = "close" /\ ret' = ret

-----------------------------------------------------------------------------
(* Steps shared by the program and by the driver called directly           *)

\* One transaction of max7219_init; the bus transfers n bytes.
InitWrite ==
    /\ pc = "init"
    /\ \E n \in WriteResults :
         LET r == InitCall(step, intensity, n) IN
         /\ wire' = wire \o r.out
         /\ IF r.ret < 0
            THEN InitReturn(-1) /\ step' = step
            ELSE IF step + 1 >= InitSteps
                 THEN InitReturn(0) /\ step' = step
                 ELSE /\ step' = step + 1
                      /\ UNCHANGED <<pc, ret, fb>>
    /\ UNCHANGED <<caller, spi_fd, closes, cursor, intensity, fy, hist>>

\* Faulty variant of FlushWrite: the flush consumes the framebuffer, zeroing
\* each row once it has been handed to max7219_send_row (fb[y] = 0).
FlushWriteBad ==
    /\ pc = "flush"
    /\ \E n \in WriteResults :
         LET r == SendRow(fy + 1, DevBytes(fb[fy]), n) IN
         /\ wire' = wire \o r.out
         /\ IF r.ret < 0
            THEN FlushReturn(-1) /\ fy' = fy
            ELSE IF fy + 1 >= HEIGHT
                 THEN FlushReturn(0) /\ fy' = fy
                 ELSE /\ fy' = fy + 1
                      /\ UNCHANGED <<pc, ret>>
    /\ fb' = [fb EXCEPT ![fy] = {}]
    /\ UNCHANGED <<caller, spi_fd, closes, cursor, intensity, step, hist>>

\* One iteration of fb_flush's loop over y: build dev_bytes from fb[y] and
\* call max7219_send_row(y + 1, dev_bytes); the bus transfers n bytes.
FlushWrite ==
    /\ pc = "flush"
    /\ \E n \in WriteResults :
         LET r == SendRow(fy + 1, DevBytes(fb[fy]), n) IN
         /\ wire' = wire \o r.out
         /\ IF r.ret < 0
            THEN FlushReturn(-1) /\ fy' = fy
            ELSE IF fy + 1 >= HEIGHT
                 THEN FlushReturn(0) /\ fy' = fy
                 ELSE /\ fy' = fy + 1
                      /\ UNCHANGED <<pc, ret>>
    /\ UNCHANGED <<caller, spi_fd, closes, fb, cursor, intensity, step, hist>>

-----------------------------------------------------------------------------
(* The program: main() of src/light.c                                      *)

\* spi_init: spi_fd = open(SPI_DEV, O_RDWR); a negative descriptor makes
\* spi_init return -1, init_lights return 1 and main return 1.
SpiOpen ==
    /\ pc = "main"
    /\ \E ok \in BOOLEAN :
         IF ok
         THEN spi_fd' = OpenedFd /\ pc' = "ioctl_mode" /\ ret' = ret
         ELSE spi_fd' = -1 /\ pc' = "exit" /\ ret' = 1
    /\ UNCHANGED <<caller, closes, fb, cursor, intensity, step, fy, wire, hist>>

\* spi_init's three ioctl calls (mode, bits per word, speed).  A failure
\* returns -1 at once, which ends the program with exit code 1; after the
\* last one init_lights calls max7219_init(4).
SpiIoctl ==
    /\ pc \in {"ioctl_mode", "ioctl_bits", "ioctl_speed"}
    /\ \E ok \in BOOLEAN :
         IF ~ok
         THEN /\ pc' = "exit"
              /\ ret' = 1
              /\ UNCHANGED <<caller, intensity, step>>
         ELSE IF pc = "ioctl_mode"
              THEN pc' = "ioctl_bits" /\ UNCHANGED <<ret, caller, intensity, step>>
              ELSE IF pc = "ioctl_bits"
                   THEN pc' = "ioctl_speed" /\ UNCHANGED <<ret, caller, intensity, step>>
                   ELSE /\ pc' = "init"
                        /\ caller' = "init_lights"
                        /\ intensity' = Clamp(4)
                        /\ step' = 0
                        /\ ret' = ret
    /\ UNCHANGED <<spi_fd, closes, fb, cursor, fy, wire, hist>>

\* Faulty variant of NextLight: the y cursor is compared against WIDTH
\* (++cur_light_y > WIDTH), so the animation runs 24 frames longer.
NextLightWide ==
    /\ pc = "loop"
    /\ LET x1 == cur_light_x + 1
           y1 == IF x1 > HEIGHT THEN cur_light_y + 1 ELSE cur_light_y
       IN /\ cur_light_x' = x1
          /\ cur_light_y' = y1
          /\ IF x1 > HEIGHT /\ y1 > WIDTH
             THEN /\ pc' = "finish"
                  /\ UNCHANGED <<caller, fb, fy>>
             ELSE /\ fb' = SetPixel(FbClear(fb), x1, y1, 1)
                  /\ pc' = "flush"
                  /\ caller' = "next_light"
                  /\ fy' = 0
    /\ UNCHANGED <<spi_fd, closes, intensity, step, wire, ret, hist>>

\* Variant of NextLight in which the reset is the assignment cur_light_x = 0
\* instead of the comparison.
NextLightReset ==
    /\ pc = "loop"
    /\ LET x1 == cur_light_x + 1
           xr == IF x1 > HEIGHT THEN 0 ELSE x1
           y1 == IF x1 > HEIGHT THEN cur_light_y + 1 ELSE cur_light_y
       IN /\ cur_light_x' = xr
          /\ cur_light_y' = y1
          /\ IF x1 > HEIGHT /\ y1 > HEIGHT
             THEN /\ pc' = "finish"
                  /\ UNCHANGED <<caller, fb, fy>>
             ELSE /\ fb' = SetPixel(FbClear(fb), xr, y1, 1)
                  /\ pc' = "flush"
                  /\ caller' = "next_light"
                  /\ fy' = 0
    /\ UNCHANGED <<spi_fd, closes, intensity, step, wire, ret, hist>>

\* One call of next_light from main's loop, up to its call of fb_flush:
\*   if (++cur_light_x > HEIGHT) { cur_light_x == 0; if (++cur_light_y > HEIGHT) return 1; }
\*   fb_clear(); fb_set_pixel(cur_light_x, cur_light_y, 1); fb_flush() ...
\* "cur_light_x == 0" is a comparison and changes nothing.  Returning 1 ends
\* the loop and main goes on to finish_lights.
NextLight ==
    /\ pc = "loop"
    /\ LET x1 == cur_light_x + 1
           y1 == IF x1 > HEIGHT THEN cur_light_y + 1 ELSE cur_light_y
       IN /\ cur_light_x' = x1
          /\ cur_light_y' = y1
          /\ IF x1 > HEIGHT /\ y1 > HEIGHT
             THEN /\ pc' = "finish"
                  /\ UNCHANGED <<caller, fb, fy>>
             ELSE /\ fb' = SetPixel(FbClear(fb), x1, y1, 1)
                  /\ pc' = "flush"
                  /\ caller' = "next_light"
                  /\ fy' = 0
    /\ UNCHANGED <<spi_fd, closes, intensity, step, wire, ret, hist>>

\* finish_lights up to its call of fb_flush: fb_clear(); fb_flush(); ...
FinishLights ==
    /\ pc = "finish"
    /\ fb' = FbClear(fb)
    /\ pc' = "flush"
    /\ caller' = "finish_lights"
    /\ fy' = 0
    /\ UNCHANGED <<spi_fd, closes, cursor, intensity, step, wire, ret, hist>>

\* finish_lights' close(spi_fd), then main returns 0.
Close ==
    /\ pc = "close"
    /\ closes' = closes + 1
    /\ pc' = "exit"
    /\ ret' = 0
    /\ UNCHANGED <<caller, spi_fd, fb, cursor, intensity, step, fy, wire, hist>>

Next ==
    \/ SpiOpen
    \/ SpiIoctl
    \/ InitWrite
    \/ NextLight
    \/ FlushWrite
    \/ FinishLights
    \/ Close

Spec == Init /\ [][Next]_vars

\* The program under its scheduling: main is one sequential thread and every
\* step is a system call that returns, so a step that can be taken is taken.
SpecFair == Spec /\ WF_vars(Next)

-----------------------------------------------------------------------------
(* The driver called directly: each call starts with an empty bus record   *)

\* What every call records: the call, and the framebuffer it started from.
Called(c) ==
    /\ last' = c
    /\ prev' = last
    /\ fb1' = fb
    /\ fb2' = fb1

ApiClear ==
    /\ pc = "idle"
    /\ fb' = FbClear(fb)
    /\ wire' = << >>
    /\ ret' = 0
    /\ Called([op |-> "fb_clear"])
    /\ UNCHANGED <<pc, caller, spi_fd, closes, cursor, intensity, step, fy>>

ApiSetPixel ==
    /\ pc = "idle"
    /\ \E x \in XS, y \in YS, on \in {0, 1} :
         /\ fb' = SetPixel(fb, x, y, on)
         /\ Called([op |-> "fb_set_pixel", x |-> x, y |-> y, on |-> on])
    /\ wire' = << >>
    /\ ret' = 0
    /\ UNCHANGED <<pc, caller, spi_fd, closes, cursor, intensity, step, fy>>

ApiFlush ==
    /\ pc = "idle"
    /\ pc' = "flush"
    /\ fy' = 0
    /\ wire' = << >>
    /\ ret' = 0
    /\ Called([op |-> "fb_flush"])
    /\ UNCHANGED <<caller, spi_fd, closes, fb, cursor, intensity, step>>

ApiSendRow ==
    /\ pc = "idle"
    /\ \E digit \in RowArgs, bytes \in ByteArgs, n \in WriteResults :
         LET r == SendRow(digit, bytes, n) IN
         /\ wire' = r.out
         /\ ret' = r.ret
         /\ Called([op |-> "max7219_send_row", digit |-> digit, bytes |-> bytes])
    /\ UNCHANGED <<pc, caller, spi_fd, closes, fb, cursor, intensity, step, fy>>

ApiBroadcast ==
    /\ pc = "idle"
    /\ \E a \in BroadcastArgs, n \in WriteResults :
         LET r == Broadcast(a[1], a[2], n) IN
         /\ wire' = r.out
         /\ ret' = r.ret
         /\ Called([op |-> "max7219_broadcast", reg |-> a[1], data |-> a[2]])
    /\ UNCHANGED <<pc, caller, spi_fd, closes, fb, cursor, intensity, step, fy>>

ApiInit ==
    /\ pc = "idle"
    /\ \E v \in Intensities :
         /\ intensity' = Clamp(v)
         /\ Called([op |-> "max7219_init", v |-> v])
    /\ pc' = "init"
    /\ step' = 0
    /\ wire' = << >>
    /\ ret' = 0
    /\ UNCHANGED <<caller, spi_fd, closes, fb, cursor, fy>>

\* The framebuffer and the flush engine called directly.
NextFb ==
    \/ ApiClear
    \/ ApiSetPixel
    \/ ApiFlush
    \/ FlushWrite

SpecFb == InitApi /\ [][NextFb]_vars

\* The register protocol and the init sequence called directly.
NextProto ==
    \/ ApiSendRow
    \/ ApiBroadcast
    \/ ApiInit
    \/ InitWrite

SpecProto == InitApi /\ [][NextProto]_vars

\* Framebuffers the idle driver starts from in SpecAll; fb_set_pixel calls
\* with coordinates of XS and YS produce each of them.
FbPatterns ==
    { [FbZero EXCEPT ![0] = {0}],
      [FbZero EXCEPT ![0] = {WIDTH - 1}, ![HEIGHT - 1] = {0, WIDTH - 1}] }

\* The driver with an open bus and some pixels lit, ready to be called.
InitLit ==
    /\ pc = "idle"
    /\ caller = "api"
    /\ spi_fd = OpenedFd
    /\ closes = 0
    /\ fb \in FbPatterns
    /\ cur_light_x = 0
    /\ cur_light_y = 0
    /\ intensity = 0
    /\ step = 0
    /\ fy = 0
    /\ wire = << >>
    /\ ret = 0
    /\ last = NoCall
    /\ prev = NoCall
    /\ fb1 = fb
    /\ fb2 = fb

\* The program's runs together with runs of the driver called directly on a
\* lit framebuffer: fb_clear, fb_flush, max7219_send_row and
\* max7219_broadcast from the idle driver, max7219_init as the program
\* calls it.
NextAll ==
    \/ SpiOpen
    \/ SpiIoctl
    \/ InitWrite
    \/ NextLight
    \/ FlushWrite
    \/ FinishLights
    \/ Close
    \/ ApiClear
    \/ ApiFlush
    \/ ApiSendRow
    \/ ApiBroadcast

SpecAll == (Init \/ InitLit) /\ [][NextAll]_vars

-----------------------------------------------------------------------------
(* Properties                                                              *)

\* Reading a recorded transaction: the register and data byte at wire
\* position k (0 is clocked out first).
RegAt(e, k) == e.buf[2 * k]
DataAt(e, k) == e.buf[2 * k + 1]
Positions == 0..3
Devices == 0..3

\* The data byte logical device d received: wire position 3 - d.
DevData(e, d) == DataAt(e, 3 - d)

\* Every write of the record transferred all 8 bytes.
AllComplete == \A i \in 1..Len(wire) : wire[i].n = 8

\* C1: for every row y and device d, the byte fb_flush sends to device d is
\* 0x80 when only column d*8 of the row is lit and 0x01 when only column
\* d*8+7 is lit; with only pixel (0,0) lit the row-1 transaction carries the
\* data bytes 0x00,0x00,0x00,0x80 in wire order.
C1_MsbIsLeftmostColumn ==
    last.op = "fb_flush" =>
        \A i \in 1..Len(wire) :
            LET y == RegAt(wire[i], 0) - 1 IN
            /\ \A d \in Devices :
                 /\ fb[y] = {d * 8} => DevData(wire[i], d) = 128
                 /\ fb[y] = {d * 8 + 7} => DevData(wire[i], d) = 1
            /\ (i = 1 /\ fb = [FbZero EXCEPT ![0] = {0}]) =>
                 /\ \A k \in Positions : RegAt(wire[1], k) = 1
                 /\ <<DataAt(wire[1], 0), DataAt(wire[1], 1),
                      DataAt(wire[1], 2), DataAt(wire[1], 3)>> = <<0, 0, 0, 128>>

\* C2: max7219_send_row(r, bytes) with r in 1..8 puts the pair (r, bytes[d])
\* at wire position 3 - d for every device d, so device 3's byte is sent
\* first and device 0's last.
C2_ChainOrder ==
    (last.op = "max7219_send_row" /\ last.digit >= 1 /\ last.digit <= 8) =>
        /\ Len(wire) = 1
        /\ \A d \in Devices :
             /\ wire[1].buf[2 * (3 - d)] = last.digit
             /\ wire[1].buf[2 * (3 - d) + 1] = last.bytes[d]
        /\ wire[1].buf[1] = last.bytes[3]
        /\ wire[1].buf[7] = last.bytes[0]

\* C2's case: a valid row sent with per-device bytes that differ.
C2_Witness ==
    /\ last.op = "max7219_send_row"
    /\ last.digit = 8
    /\ last.bytes[0] # last.bytes[3]
    /\ Len(wire) = 1

\* C3: every bus write of the program requests exactly 8 bytes, 4 (register,
\* data) pairs with the same register byte; a broadcast also carries the
\* same data byte in all 4 pairs.
C3_TransactionShape ==
    \A i \in 1..Len(wire) :
        /\ wire[i].len = 8
        /\ DOMAIN wire[i].buf = 0..7
        /\ \A k \in Positions : RegAt(wire[i], k) = RegAt(wire[i], 0)
        /\ wire[i].op = "broadcast" =>
             \A k \in Positions : DataAt(wire[i], k) = DataAt(wire[i], 0)

\* C3's case: a run that ended after teardown, with broadcasts on the bus
\* and a row write carrying a lit pixel.
C3_Witness ==
    /\ pc = "exit"
    /\ closes = 1
    /\ AllComplete
    /\ \E i \in 1..Len(wire) : wire[i].op = "broadcast"
    /\ \E i \in 1..Len(wire) :
         /\ wire[i].op = "send_row"
         /\ \E k \in Positions : DataAt(wire[i], k) # 0

\* The pair max7219_init is said to send in its i-th transaction, for the
\* intensity argument v.
C4_Expected(i, v) ==
    CASE i = 1 -> <<15, 0>>
      [] i = 2 -> <<9, 0>>
      [] i = 3 -> <<11, 7>>
      [] i = 4 -> <<10, IF v > 15 THEN 15 ELSE v>>
      [] i = 5 -> <<12, 1>>
      [] OTHER -> <<i - 5, 0>>

\* C4: max7219_init sends, in this order, DISPLAYTEST=0, DECODE=0,
\* SCANLIMIT=7, INTENSITY=clamped, SHUTDOWN=1 as broadcasts and then rows
\* 1..8 with 4 zero bytes each; when all writes succeed there are exactly 13
\* transactions.
C4_InitSequence ==
    last.op = "max7219_init" =>
        /\ Len(wire) <= 13
        /\ \A i \in 1..Len(wire) :
             /\ wire[i].op = (IF i <= 5 THEN "broadcast" ELSE "send_row")
             /\ \A k \in Positions :
                  <<RegAt(wire[i], k), DataAt(wire[i], k)>> = C4_Expected(i, last.v)
        /\ (pc = "idle" /\ ret = 0) => (Len(wire) = 13 /\ AllComplete)
        /\ (pc = "idle" /\ AllComplete) => (Len(wire) = 13 /\ ret = 0)

\* C4's case: an init whose 13 writes all succeeded.
C4_Witness ==
    /\ last.op = "max7219_init"
    /\ pc = "idle"
    /\ ret = 0
    /\ Len(wire) = 13

\* C5: when the write for row k of a flush is short, fb_flush returns an
\* error at once: that transaction is the last one of the flush and is sent
\* once, rows 1..k-1 were transmitted in full before it, no later row
\* follows.
C5_FlushAbortsOnShortWrite ==
    last.op = "fb_flush" =>
        /\ \A k \in 1..Len(wire) : RegAt(wire[k], 0) = k
        /\ \A k \in 1..Len(wire) :
             wire[k].n # 8 =>
                /\ k = Len(wire)
                /\ pc = "idle"
                /\ ret = -1
                /\ \A j \in 1..(k - 1) : wire[j].n = 8
        /\ (pc = "idle" /\ ret = 0) => (Len(wire) = 8 /\ AllComplete)

\* C5's case: a flush that failed at row 3 after two rows went out.
C5_Witness ==
    /\ last.op = "fb_flush"
    /\ pc = "idle"
    /\ ret = -1
    /\ Len(wire) = 3
    /\ wire[3].n # 8
    /\ wire[1].n = 8
    /\ wire[2].n = 8

\* C6: in every complete run in which the device node was opened, the bus
\* handle has been closed exactly once when the program ends, on the fatal
\* error paths as well as after teardown.
C6_HandleClosedOnce ==
    /\ closes <= 1
    /\ (pc = "exit" /\ spi_fd >= 0) => closes = 1

\* The last call was fb_set_pixel with a coordinate outside [0,32) x [0,8).
LastSetOutside ==
    /\ last.op = "fb_set_pixel"
    /\ (last.x < 0 \/ last.x >= 32 \/ last.y < 0 \/ last.y >= 8)

\* C7: fb_set_pixel with x or y out of range leaves all 8 rows unchanged,
\* reports no error and issues no bus write, for either value of on.
C7_OutOfRangeIsNoop ==
    LastSetOutside =>
        /\ \A y \in 0..7 : fb[y] = fb1[y]
        /\ DOMAIN fb = 0..7
        /\ ret = 0
        /\ wire = << >>
        /\ pc = "idle"

\* C7's case: an out-of-range column, on = 1, on a framebuffer with lit pixels.
C7_Witness ==
    /\ LastSetOutside
    /\ last.x = 32
    /\ last.y = 0
    /\ last.on = 1
    /\ fb1[0] # {}

\* The last two calls were fb_set_pixel(x,y,1) then fb_set_pixel(x,y,0) for
\* one in-range (x,y).
SetThenClear ==
    /\ prev.op = "fb_set_pixel"
    /\ last.op = "fb_set_pixel"
    /\ prev.on = 1
    /\ last.on = 0
    /\ prev.x = last.x
    /\ prev.y = last.y
    /\ last.x >= 0 /\ last.x < 32
    /\ last.y >= 0 /\ last.y < 8

\* C8 as stated: fb_set_pixel(x,y,1) then fb_set_pixel(x,y,0) restores row y
\* to its value before the two calls, whatever that value was, and leaves
\* the other rows unchanged.
C8_RoundTripRestoresRow ==
    SetThenClear => \A y \in 0..7 : fb[y] = fb2[y]

\* C8, amended: the two calls leave row y equal to its prior value with bit x
\* cleared, which is the prior value exactly when bit x was clear before;
\* the other rows are unchanged.
C8_RoundTripClearsBit ==
    SetThenClear =>
        /\ fb[last.y] = fb2[last.y] \ {last.x}
        /\ (last.x \notin fb2[last.y]) => fb[last.y] = fb2[last.y]
        /\ (last.x \in fb2[last.y]) => fb[last.y] # fb2[last.y]
        /\ \A y \in 0..7 : y # last.y => fb[y] = fb2[y]

\* C8's case: the round trip on a pixel that was off, in a row with another
\* pixel lit.
C8_Witness ==
    /\ SetThenClear
    /\ last.x \notin fb2[last.y]
    /\ fb2[last.y] # {}
    /\ fb[last.y] = fb2[last.y]

\* C9: fb_clear followed by fb_flush sends, for every row 1..8, one
\* transaction whose 4 data bytes are 0x00, whatever the framebuffer held.
C9_ClearThenFlushIsBlank ==
    (prev.op = "fb_clear" /\ last.op = "fb_flush") =>
        /\ \A i \in 1..Len(wire) :
             /\ \A k \in Positions : RegAt(wire[i], k) = i
             /\ \A k \in Positions : DataAt(wire[i], k) = 0
        /\ (pc = "idle" /\ AllComplete) => Len(wire) = 8

\* C9's case: a framebuffer with lit pixels, cleared, then flushed in full.
C9_Witness ==
    /\ prev.op = "fb_clear"
    /\ last.op = "fb_flush"
    /\ fb2[7] # {}
    /\ fb2[0] # {}
    /\ pc = "idle"
    /\ ret = 0
    /\ Len(wire) = 8

\* C10: the data byte of the INTENSITY (0x0A) broadcast of max7219_init(v) is
\* min(v, 15), so it lies in 0..15; the argument 20 transmits 15.
C10_IntensityClamped ==
    (last.op = "max7219_init" /\ Len(wire) >= 4) =>
        \A k \in Positions :
            /\ RegAt(wire[4], k) = 10
            /\ DataAt(wire[4], k) \in 0..15
            /\ last.v <= 15 => DataAt(wire[4], k) = last.v
            /\ last.v >= 15 => DataAt(wire[4], k) = 15

\* C10's case: max7219_init(20) has sent its INTENSITY broadcast.
C10_Witness ==
    /\ last.op = "max7219_init"
    /\ last.v = 20
    /\ Len(wire) >= 4
    /\ DataAt(wire[4], 0) = 15

\* The number of writes the running or finished teardown flush has issued:
\* fy rows went out in full while the flush runs; once it has returned, row
\* fy + 1 was its last write.
TeardownWrites == IF pc = "flush" THEN fy ELSE fy + 1

\* C11: finish_lights clears the framebuffer, flushes once with all data
\* bytes zero, and goes on to close the bus handle whether that flush
\* succeeded or failed at any row; the failure is not reported (main
\* returns 0).
C11_TeardownBestEffort ==
    caller = "finish_lights" =>
        /\ pc \in {"flush", "close", "exit"}
        /\ fb = FbZero
        /\ TeardownWrites <= 8
        /\ TeardownWrites <= Len(wire)
        /\ \A j \in 1..TeardownWrites :
             LET e == wire[Len(wire) - TeardownWrites + j] IN
             /\ e.op = "send_row"
             /\ \A k \in Positions : RegAt(e, k) = j /\ DataAt(e, k) = 0
        /\ pc = "close" => closes = 0
        /\ pc = "exit" => (closes = 1 /\ ret = 0)

\* C11's case: the teardown flush failed at row 3 and the program still
\* closed the handle and ended with exit code 0.
C11_Witness ==
    /\ caller = "finish_lights"
    /\ pc = "exit"
    /\ closes = 1
    /\ ret = 0
    /\ fy = 2
    /\ wire[Len(wire)].n # 8
    /\ wire[Len(wire) - 1].n = 8

\* What holds in every state for C12: a direct call with a row index outside
\* 1..8 has returned -1 and written nothing; the row index fb_flush is about
\* to pass (y + 1) and the one max7219_init is about to pass are in 1..8.
C12_State ==
    /\ (last.op = "max7219_send_row" /\ (last.digit < 1 \/ last.digit > 8)) =>
          (ret = -1 /\ wire = << >> /\ pc = "idle")
    /\ pc = "flush" => (fy + 1 >= 1 /\ fy + 1 <= 8)
    /\ (pc = "init" /\ step >= 5) => (step - 4 >= 1 /\ step - 4 <= 8)

\* What holds of every step for C12: each step of fb_flush and of
\* max7219_init puts exactly one transaction on the bus (the call it makes
\* is never rejected), and a row transaction carries a register in 1..8.
C12_Step ==
    /\ pc \in {"flush", "init"} => Len(wire') = Len(wire) + 1
    /\ Len(wire') > Len(wire) =>
          LET e == wire'[Len(wire')] IN
          e.op = "send_row" => (RegAt(e, 0) >= 1 /\ RegAt(e, 0) <= 8)

\* C12: max7219_send_row with a row index outside 1..8 returns an error
\* without a bus write, and fb_flush and max7219_init always pass a row
\* index in 1..8, so the rejection never occurs in the program.
C12_RowIndexInRange == [] C12_State /\ [][C12_Step]_vars

\* C12's case: max7219_send_row(9, ...) was rejected without a write.
C12_Witness ==
    /\ last.op = "max7219_send_row"
    /\ last.digit = 9
    /\ ret = -1
    /\ wire = << >>

\* The lifecycle state a control position p with caller c belongs to: 0 Uninitialized (the
\* bus is being opened and configured), 1 the init sequence, 2 Ready and
\* Rendering (the animation loop), 3 teardown, 4 Closed or ended.
Phase(p, c) ==
    CASE p \in {"main", "ioctl_mode", "ioctl_bits", "ioctl_speed"} -> 0
      [] p = "init" -> 1
      [] p \in {"loop", "flush"} /\ c # "finish_lights" -> 2
      [] p \in {"finish", "flush", "close"} -> 3
      [] OTHER -> 4

\* The first 13 transactions on the bus are a complete init sequence.
InitDone ==
    /\ Len(wire) >= 13
    /\ \A i \in 1..13 : wire[i].n = 8
    /\ \A i \in 1..5 : wire[i].op = "broadcast"
    /\ \A i \in 6..13 : wire[i].op = "send_row"

\* What holds in every state for C13.
C13_State ==
    /\ Phase(pc, caller) = 0 => (wire = << >> /\ closes = 0)
    /\ (pc = "exit" /\ caller = "main") => wire = << >>
    /\ wire # << >> => spi_fd >= 0
    /\ pc = "init" => (Len(wire) = step /\ step < 13 /\ closes = 0)
    /\ Phase(pc, caller) \in {2, 3} => InitDone
    /\ Len(wire) > 13 => InitDone
    /\ closes >= 1 => pc = "exit"

\* What holds of every step for C13: the lifecycle only moves forward, and
\* nothing is written once the handle is closed or while it is not open.
C13_Step ==
    /\ Phase(pc', caller') >= Phase(pc, caller)
    /\ (closes >= 1 \/ spi_fd < 0) => wire' = wire

\* C13: no bus write before the device node is opened and fully configured,
\* none after the handle is closed, no framebuffer flush before the init
\* sequence has completed successfully; the lifecycle runs Uninitialized,
\* Ready, Rendering, Ready, Closed in this order.
C13_Lifecycle == [] C13_State /\ [][C13_Step]_vars

\* C13's case: a run that went through init, at least one frame and the
\* teardown, and closed the handle.
C13_Witness ==
    /\ pc = "exit"
    /\ closes = 1
    /\ Len(wire) >= 13 + 8 + 8
    /\ AllComplete

\* The number of 1 bits of a byte.
PopCount(b) ==
    (b % 2) + ((b \div 2) % 2) + ((b \div 4) % 2) + ((b \div 8) % 2)
    + ((b \div 16) % 2) + ((b \div 32) % 2) + ((b \div 64) % 2) + ((b \div 128) % 2)

\* The columns of device d: 8d .. 8d+7.
Segment(d) == (8 * d)..(8 * d + 7)

\* C14: a successful fb_flush issues exactly 8 transactions in increasing row
\* order; the i-th carries register i and the data of framebuffer row i-1
\* (each device's byte has one 1 bit per lit column of its segment); no row
\* is skipped, repeated or reordered.
C14_FlushRowOrder ==
    last.op = "fb_flush" =>
        /\ Len(wire) <= 8
        /\ pc = "flush" => Len(wire) = fy
        /\ \A i \in 1..Len(wire) :
             /\ wire[i].op = "send_row"
             /\ \A k \in Positions : RegAt(wire[i], k) = i
             /\ \A d \in Devices :
                  PopCount(DevData(wire[i], d)) = Cardinality(fb1[i - 1] \cap Segment(d))
        /\ (pc = "idle" /\ ret = 0) => Len(wire) = 8

\* C14's case: a complete flush of a framebuffer whose first and last rows
\* are lit differently.
C14_Witness ==
    /\ last.op = "fb_flush"
    /\ pc = "idle"
    /\ ret = 0
    /\ Len(wire) = 8
    /\ fb1[0] = {0}
    /\ fb1[7] = {0, 31}

\* C15: when one of the 13 transactions of max7219_init is a short write,
\* it is the last transaction the program ever issues: init stops there,
\* init_lights fails (main returns 1), and neither the animation loop nor
\* the teardown flush runs.
C15_InitFailureIsFatal ==
    \A i \in 1..Len(wire) :
        (i <= 13 /\ wire[i].n # 8) =>
            /\ i = Len(wire)
            /\ pc = "exit"
            /\ ret = 1
            /\ caller = "init_lights"
            /\ fb = FbZero
            /\ cur_light_x = 0
            /\ cur_light_y = 0

\* C15's case: init failed at its 7th transaction (row 2) and the program
\* ended.
C15_Witness ==
    /\ Len(wire) = 7
    /\ wire[7].n # 8
    /\ \A i \in 1..6 : wire[i].n = 8
    /\ pc = "exit"
    /\ ret = 1

\* Transaction e carries register i everywhere and, for every device, the
\* byte whose bit `bit` is 1 exactly when column 8d + bit of row is lit.
Carries(e, i, row) ==
    /\ \A k \in Positions : RegAt(e, k) = i
    /\ \A d \in Devices : \A bit \in 0..7 :
         ((DevData(e, d) \div (2 ^ bit)) % 2 = 1) <=> ((8 * d + bit) \in row)

\* What holds in every state for C16: during and after a direct fb_flush,
\* max7219_send_row or max7219_broadcast, whatever the writes returned, the
\* framebuffer is the one the call started from; a flush's transactions are
\* those of that framebuffer, so two flushes in a row send the same ones.
C16_State ==
    /\ last.op \in {"fb_flush", "max7219_send_row", "max7219_broadcast"} => fb = fb1
    /\ last.op = "fb_flush" =>
         \A i \in 1..Len(wire) : Carries(wire[i], i, fb1[i - 1])
    /\ (prev.op = "fb_flush" /\ last.op = "fb_flush") =>
         /\ fb1 = fb2
         /\ \A i \in 1..Len(wire) : Carries(wire[i], i, fb2[i - 1])

\* What holds of every step for C16: the framebuffer changes only in a call
\* of fb_clear or fb_set_pixel, made directly or by init_lights, next_light
\* and finish_lights; no step of fb_flush changes it.
C16_Step ==
    /\ pc = "flush" => fb' = fb
    /\ fb' # fb =>
         \/ pc = "idle" /\ last'.op \in {"fb_clear", "fb_set_pixel"}
         \/ pc \in {"loop", "finish"}
         \/ pc = "init" /\ pc' = "loop"

\* C16: only fb_clear and fb_set_pixel change the framebuffer; fb_flush,
\* max7219_send_row and max7219_broadcast leave all rows unchanged whether
\* the write succeeds or fails, so flushing twice sends the same
\* transactions.
C16_OnlyMutatorsChangeFb == [] C16_State /\ [][C16_Step]_vars

\* C16's case: two flushes in a row of a lit framebuffer, the second one
\* complete.
C16_Witness ==
    /\ prev.op = "fb_flush"
    /\ last.op = "fb_flush"
    /\ pc = "idle"
    /\ ret = 0
    /\ Len(wire) = 8
    /\ fb[7] = {0, 31}

\* What holds in every state for C17: the y cursor is the amount by which
\* the x cursor exceeds 8.
C17_State ==
    /\ cur_light_x >= 0
    /\ cur_light_y = (IF cur_light_x > 8 THEN cur_light_x - 8 ELSE 0)

\* What holds of every step for C17: a next_light call (the step taken from
\* main's loop) adds exactly 1 to cur_light_x, and adds 1 to cur_light_y
\* exactly when the new cur_light_x exceeds 8; no step sets cur_light_x
\* back, and no other step touches the cursor.
C17_Step ==
    /\ pc = "loop" =>
         /\ cur_light_x' = cur_light_x + 1
         /\ cur_light_x + 1 > 8 => cur_light_y' = cur_light_y + 1
         /\ cur_light_x + 1 <= 8 => cur_light_y' = cur_light_y
    /\ pc # "loop" => (cur_light_x' = cur_light_x /\ cur_light_y' = cur_light_y)
    /\ cur_light_x' >= cur_light_x

\* C17: next_light compares the x cursor against the height bound 8 and its
\* reset never takes effect: cur_light_x grows by 1 on every call and is
\* never set back to 0, and once it exceeds 8 every call also increments
\* cur_light_y.
C17_CursorNeverResets == [] C17_State /\ [][C17_Step]_vars

\* C17's case: the x cursor is well past 8 and was never reset.
C17_Witness ==
    /\ cur_light_x = 12
    /\ cur_light_y = 4
    /\ pc = "flush"
    /\ caller = "next_light"

\* What holds in every state for C18: next_light has been called at most 17
\* times (cur_light_x counts its calls), a frame is flushed by it only
\* during its first 16 calls, and the bus carries at most 13 + 16*8 + 8
\* transactions.
C18_State ==
    /\ cur_light_x <= 17
    /\ (pc = "flush" /\ caller = "next_light") => cur_light_x <= 16
    /\ (pc = "loop" /\ cur_light_x > 0) => AllComplete
    /\ Len(wire) <= 149

\* What holds of every step for C18: the 17th next_light call returns
\* nonzero, and so does a call whose flush had a failed write; both hand
\* over to finish_lights.
C18_Step ==
    /\ (pc = "loop" /\ cur_light_x = 16) => pc' = "finish"
    /\ (pc = "flush" /\ caller = "next_light" /\ Len(wire') > Len(wire)
          /\ wire'[Len(wire')].n # 8) => pc' = "finish"
    /\ pc = "finish" => (pc' = "flush" /\ caller' = "finish_lights")

\* C18: the animation loop of main always terminates: even when every bus
\* write succeeds next_light returns nonzero no later than its 17th call,
\* after at most 16 flushed frames; then finish_lights runs and the bus
\* handle is closed; a failed flush ends the loop earlier.
C18_LoopTerminates ==
    /\ [] C18_State
    /\ [][C18_Step]_vars
    /\ (pc = "loop") ~> (pc = "exit" /\ closes = 1)

\* C18's case: every write succeeded, 16 frames were flushed, the 17th call
\* ended the loop, finish_lights ran and the handle is closed.
C18_Witness ==
    /\ pc = "exit"
    /\ closes = 1
    /\ cur_light_x = 17
    /\ Len(wire) = 149
    /\ AllComplete

\* The frame next_light draws for the cursor (x, y): the single bit (x, y)
\* when the coordinate is inside [0,32) x [0,8), nothing otherwise.
C19_Frame(x, y) ==
    IF x \in 0..31 /\ y \in 0..7
    THEN [FbZero EXCEPT ![y] = {x}]
    ELSE FbZero

\* C19: every frame flushed by next_light holds at most one lit pixel: while
\* its fb_flush runs the framebuffer has exactly the bit
\* (cur_light_x, cur_light_y) set when that coordinate is inside
\* [0,32) x [0,8) and is all zero when it is outside.
C19_SinglePixelFrame ==
    (pc = "flush" /\ caller = "next_light") =>
        /\ fb = C19_Frame(cur_light_x, cur_light_y)
        /\ Cardinality(UNION {{<<x, y>> : x \in fb[y]} : y \in DOMAIN fb}) <= 1

\* C19's case: the frame for the cursor (16, 8), outside the panel, is being
\* flushed blank right after the frame that lit (15, 7).
C19_Witness ==
    /\ pc = "flush"
    /\ caller = "next_light"
    /\ cur_light_x = 16
    /\ cur_light_y = 8
    /\ fb = FbZero
    /\ fy = 3

====
